---- MODULE Spec2Model ----
(***************************************************************************)
(* A model of the climate-outlook code of epoch-outlook:                   *)
(*   - the weather-forecast edge function (cached variant): validation,    *)
(*     cache lookup, window selection, provider fetch, daily aggregation,  *)
(*     window averages, cache upsert;                                      *)
(*   - the Results page built on it (transformation of the response);      *)
(*   - the mock BFF path handleOutlookRequest -> getOutlook.               *)
(* JavaScript numbers are modelled as exact rationals extended with NaN,   *)
(* +Infinity and -Infinity (IEEE rounding error is not modelled).          *)
(***************************************************************************)
EXTENDS Integers, Sequences, FiniteSets, TLC

VARIABLES
    today,      \* the clock: the current day, as a day number
    upstream,   \* the provider's data snapshot, per endpoint
    cache,      \* forecast_cache: key -> stored response, or NoRow
    pc,         \* per request: where the handler (and then the page) is
    req,        \* per request: the JSON body received
    fetchArgs,  \* per request: endpoint and date range asked from the provider
    resp,       \* per request: the HTTP response of the handler
    calls,      \* per request: number of provider calls made
    data,       \* per request: what the Results page builds from the response
    day,        \* aggregation of one payload: input and output
    win,        \* window selection: input and output
    bff,        \* handleOutlookRequest: parameters and outcome
    page,       \* the Results page: parameters, fetches in flight, its state
    rec         \* useVoiceRecorder: the recorder, its flags and the promise

vars ==
    <<today, upstream, cache, pc, req, fetchArgs, resp, calls, data, day, win, bff,
      page, rec>>

edgeVars == <<today, upstream, cache, pc, req, fetchArgs, resp, calls, data>>

(***************************************************************************)
(* JavaScript numbers.  k = "num": the rational n/d in lowest terms, d > 0 *)
(***************************************************************************)
RECURSIVE GCD(_, _)
GCD(a, b) == IF b = 0 THEN a ELSE GCD(b, a % b)

Abs(x) == IF x < 0 THEN -x ELSE x

NaN == [k |-> "nan", n |-> 0, d |-> 1]

PosInf == [k |-> "inf", n |-> 1, d |-> 1]

NegInf == [k |-> "inf", n |-> -1, d |-> 1]

Q(n, d) ==
    LET s == IF d < 0 THEN -1 ELSE 1
        g == GCD(Abs(n), Abs(d))
    IN  [k |-> "num", n |-> (s * n) \div g, d |-> (s * d) \div g]

Z(n) == [k |-> "num", n |-> n, d |-> 1]

IsNum(x) == x.k = "num"

IsNaN(x) == x.k = "nan"

\* a + b
Add(a, b) ==
    CASE IsNaN(a) \/ IsNaN(b) -> NaN
      [] IsNum(a) /\ IsNum(b) -> Q(a.n * b.d + b.n * a.d, a.d * b.d)
      [] IsNum(a) -> b
      [] IsNum(b) -> a
      [] OTHER -> IF a.n = b.n THEN a ELSE NaN

\* a * b
Mul(a, b) ==
    CASE IsNaN(a) \/ IsNaN(b) -> NaN
      [] IsNum(a) /\ IsNum(b) -> Q(a.n * b.n, a.d * b.d)
      [] OTHER ->
           LET sa == IF a.n > 0 THEN 1 ELSE IF a.n < 0 THEN -1 ELSE 0
               sb == IF b.n > 0 THEN 1 ELSE IF b.n < 0 THEN -1 ELSE 0
           IN  IF sa * sb = 0 THEN NaN ELSE IF sa * sb > 0 THEN PosInf ELSE NegInf

\* a / c for an integer count c >= 0 (array lengths)
DivInt(a, c) ==
    CASE IsNaN(a) -> NaN
      [] c = 0 /\ IsNum(a) -> IF a.n = 0 THEN NaN ELSE IF a.n > 0 THEN PosInf ELSE NegInf
      [] c = 0 -> a
      [] IsNum(a) -> Q(a.n, a.d * c)
      [] OTHER -> a

\* a < b ; every comparison with NaN is false
Lt(a, b) ==
    CASE IsNaN(a) \/ IsNaN(b) -> FALSE
      [] IsNum(a) /\ IsNum(b) -> a.n * b.d < b.n * a.d
      [] IsNum(a) -> b.n > 0
      [] IsNum(b) -> a.n < 0
      [] OTHER -> a.n < b.n

Gt(a, b) == Lt(b, a)

Le(a, b) == ~IsNaN(a) /\ ~IsNaN(b) /\ ~Lt(b, a)

Ge(a, b) == Le(b, a)

\* Math.min(a, b), Math.max(a, b): NaN if either is NaN
MathMin(a, b) == IF IsNaN(a) \/ IsNaN(b) THEN NaN ELSE IF Lt(b, a) THEN b ELSE a

MathMax(a, b) == IF IsNaN(a) \/ IsNaN(b) THEN NaN ELSE IF Lt(a, b) THEN b ELSE a

\* Math.round(a): the nearest integer, halves towards +Infinity
MathRound(a) == IF IsNum(a) THEN Z((2 * a.n + a.d) \div (2 * a.d)) ELSE a

\* Math.round(a * 10) / 10
Round1(a) == IF IsNum(a) THEN Q(MathRound(Mul(a, Z(10))).n, 10) ELSE a

\* x || 0 : a falsy number (0, NaN) becomes 0
OrZero(a) == IF IsNaN(a) THEN Z(0) ELSE a

(***************************************************************************)
(* Daily Metric Aggregator: weather-forecast/index.ts, the callback of     *)
(* weatherData.daily.time.map.  A payload w has                            *)
(*   w.hourly : sequence of [day, min, temp]  (time of day in minutes)     *)
(*   w.daily  : sequence of [day, sunrise, sunset, precip, wind]           *)
(* sunrise and sunset are [has, min]: has = FALSE when the field is        *)
(* missing from the payload.                                               *)
(***************************************************************************)
RECURSIVE MinOf(_)
\* Math.min(...temps): Infinity for no argument
MinOf(s) == IF s = <<>> THEN PosInf ELSE MathMin(Head(s), MinOf(Tail(s)))

RECURSIVE MaxOf(_)
\* Math.max(...temps): -Infinity for no argument
MaxOf(s) == IF s = <<>> THEN NegInf ELSE MathMax(Head(s), MaxOf(Tail(s)))

RECURSIVE SumOf(_)
\* s.reduce((a, b) => a + b, 0)
SumOf(s) == IF s = <<>> THEN Z(0) ELSE Add(Head(s), SumOf(Tail(s)))

MapTemp(hs) == [i \in 1..Len(hs) |-> hs[i].temp]

\* getHours() + getMinutes() / 60
HourOf(min) == Q(min, 60)

\* hourlyData.filter(h => h.datetime >= dayStart && h.datetime <= dayEnd)
DayHourlyData(w, dayStr) == SelectSeq(w.hourly, LAMBDA h : h.day = dayStr)

\* sunriseStr ? new Date(sunriseStr) : new Date(`${dayStr}T06:00:00`)
SunriseOf(dy) == IF dy.sunrise.has THEN dy.sunrise.min ELSE 6 * 60

\* sunsetStr ? new Date(sunsetStr) : new Date(`${dayStr}T18:00:00`)
SunsetOf(dy) == IF dy.sunset.has THEN dy.sunset.min ELSE 18 * 60

\* faulty variant: the hour of the sample without its minutes
InSunBucket_WholeHours(h, dy) ==
    /\ Ge(Z(h.min \div 60), HourOf(SunriseOf(dy)))
    /\ Lt(Z(h.min \div 60), HourOf(SunsetOf(dy)))

\* hour >= sunriseHour && hour < sunsetHour
InSunBucket(h, dy) ==
    /\ Ge(HourOf(h.min), HourOf(SunriseOf(dy)))
    /\ Lt(HourOf(h.min), HourOf(SunsetOf(dy)))

SunTemps(w, dy) ==
    MapTemp(SelectSeq(DayHourlyData(w, dy.day), LAMBDA h : InSunBucket(h, dy)))

NightTemps(w, dy) ==
    MapTemp(SelectSeq(DayHourlyData(w, dy.day), LAMBDA h : ~InSunBucket(h, dy)))

Tmin(w, dy) == MinOf(MapTemp(DayHourlyData(w, dy.day)))

Tmax(w, dy) == MaxOf(MapTemp(DayHourlyData(w, dy.day)))

\* faulty variant: the day mean divided by the number of all samples of the day
SunTmean_DivByAll(w, dy) ==
    LET t == SunTemps(w, dy)
    IN  IF Len(t) > 0 THEN DivInt(SumOf(t), Len(DayHourlyData(w, dy.day))) ELSE Tmax(w, dy)

\* faulty variant: no fallback for an empty night bucket
NightTmean_NoFallback(w, dy) ==
    LET t == NightTemps(w, dy)
    IN  DivInt(SumOf(t), Len(t))

\* sunTemps.length > 0 ? sum / length : Tmax
SunTmean(w, dy) ==
    LET t == SunTemps(w, dy)
    IN  IF Len(t) > 0 THEN DivInt(SumOf(t), Len(t)) ELSE Tmax(w, dy)

\* nightTemps.length > 0 ? sum / length : Tmin
NightTmean(w, dy) ==
    LET t == NightTemps(w, dy)
    IN  IF Len(t) > 0 THEN DivInt(SumOf(t), Len(t)) ELSE Tmin(w, dy)

\* one DailyMetrics row (the fields the claims read; rain_sum, snowfall_sum,
\* cloud cover, humidity and uv index are carried like precipitation_sum)
DayMetrics(w, idx) ==
    LET dy == w.daily[idx]
    IN  [ day |-> dy.day,
          Tmin |-> Tmin(w, dy),
          Tmax |-> Tmax(w, dy),
          sunTmean |-> SunTmean(w, dy),
          nightTmean |-> NightTmean(w, dy),
          precipitation_sum |-> OrZero(dy.precip),
          wind_speed_10m_mean |-> OrZero(dy.wind) ]

DailyMetrics(w) == [idx \in 1..Len(w.daily) |-> DayMetrics(w, idx)]

(***************************************************************************)
(* Bounds and input sets of the aggregation specification                  *)
(***************************************************************************)
MaxSamples == 3

DayIds == {1, 2}

SampleMins == {0, 5 * 60 + 45, 6 * 60, 12 * 60, 18 * 60}

SampleTemps == {Z(-4), Z(10), Q(51, 2)}

Missing == [has |-> FALSE, min |-> 0]

At(m) == [has |-> TRUE, min |-> m]

SunriseOpts == {Missing, At(5 * 60 + 30), At(12 * 60), At(20 * 60)}

SunsetOpts == {Missing, At(12 * 60), At(20 * 60 + 30), At(4 * 60)}

Samples == [day : DayIds, min : SampleMins, temp : SampleTemps]

\* the provider lists the hourly samples in time order
TimeOrdered(hs) ==
    \A i \in 1..(Len(hs) - 1) :
        \/ hs[i].day < hs[i + 1].day
        \/ hs[i].day = hs[i + 1].day /\ hs[i].min < hs[i + 1].min

HourlySeqs == {hs \in UNION {[1..n -> Samples] : n \in 0..MaxSamples} : TimeOrdered(hs)}

(***************************************************************************)
(* SpecDay: the daily aggregation of one payload holding one daily entry   *)
(***************************************************************************)
IdleEdge ==
    /\ today = 0
    /\ upstream = <<>>
    /\ cache = {}
    /\ pc = <<>>
    /\ req = <<>>
    /\ fetchArgs = <<>>
    /\ resp = <<>>
    /\ calls = <<>>
    /\ data = <<>>

IdleDay == day = [done |-> FALSE, w |-> [hourly |-> <<>>, daily |-> <<>>],
                  out |-> <<>>, locals |-> <<>>]

IdleWin ==
    win = [done |-> FALSE, target |-> <<>>, window |-> 0, now |-> 0,
           fwd |-> <<>>, hist |-> <<>>]

IdleBff == bff = [done |-> FALSE, params |-> <<>>, out |-> [kind |-> "none"]]

\* Number(searchParams.get(..)) of a URL without parameters, and date || ""
NoQuery == [lat |-> 0, lon |-> 0, date |-> ""]

\* useState(null): no data shown yet
NothingShown == [run |-> 0, q |-> NoQuery]

\* the Results page as mounted: useState(null), useState(true), useState(""),
\* before the first run of the effect
Mounted ==
    [ params |-> NoQuery, run |-> 0, inflight |-> {}, loading |-> TRUE,
      data |-> NothingShown, error |-> [run |-> 0, msg |-> ""] ]

IdlePage == page = Mounted

\* useVoiceRecorder before any recording: useState(false), useState(false),
\* useRef(null), useRef([]); promises are the promises stopRecording has
\* returned, handler the promise whose closure is the recorder's onstop
HookMounted ==
    [ recorder |-> "none", chunks |-> 0,
      isRecording |-> FALSE, isTranscribing |-> FALSE,
      promises |-> <<>>, handler |-> 0,
      stopEvent |-> FALSE, flushed |-> FALSE,
      reading |-> 0, invoking |-> 0, toast |-> "" ]

IdleRec == rec = HookMounted

IdleUi == IdlePage /\ IdleRec

InitDay ==
    /\ IdleEdge
    /\ IdleWin
    /\ IdleBff
    /\ IdleUi
    /\ \E hs \in HourlySeqs, sr \in SunriseOpts, ss \in SunsetOpts :
          day = [ done |-> FALSE,
                  w |-> [ hourly |-> hs,
                          daily |-> << [day |-> 1, sunrise |-> sr, sunset |-> ss,
                                        precip |-> Z(0), wind |-> Z(0)] >> ],
                  out |-> <<>>,
                  locals |-> <<>> ]

\* the locals of the map callback, per daily entry: the samples of the day,
\* the two boundaries and the two buckets
DayLocals(w) ==
    [idx \in 1..Len(w.daily) |->
        [ dayHourlyData |-> DayHourlyData(w, w.daily[idx].day),
          sunriseHour |-> HourOf(SunriseOf(w.daily[idx])),
          sunsetHour |-> HourOf(SunsetOf(w.daily[idx])),
          sunTemps |-> SunTemps(w, w.daily[idx]),
          nightTemps |-> NightTemps(w, w.daily[idx]) ]]

\* weatherData.daily.time.map(...): every daily entry yields a row
AggregateDays ==
    /\ ~day.done
    /\ day' = [day EXCEPT !.done = TRUE,
                          !.out = DailyMetrics(day.w),
                          !.locals = DayLocals(day.w)]
    /\ UNCHANGED <<edgeVars, win, bff, page, rec>>

NextDay == AggregateDays

SpecDay == InitDay /\ [][NextDay]_vars

(***************************************************************************)
(* Claims on the daily aggregation (SpecDay)                               *)
(***************************************************************************)
BothBuckets(i) ==
    Len(day.locals[i].sunTemps) > 0 /\ Len(day.locals[i].nightTemps) > 0

C7_EmptyBucketFallback ==
    day.done =>
        \A i \in 1..Len(day.out) :
            LET nSun == Len(day.locals[i].sunTemps)
                nNight == Len(day.locals[i].nightTemps)
            IN  nSun + nNight > 0 =>
                  /\ nSun = 0 =>
                        day.out[i].sunTmean = day.out[i].Tmax /\ IsNum(day.out[i].sunTmean)
                  /\ nNight = 0 =>
                        day.out[i].nightTmean = day.out[i].Tmin /\ IsNum(day.out[i].nightTmean)
                  /\ IsNum(day.out[i].sunTmean) /\ IsNum(day.out[i].nightTmean)

\* a day whose samples all fall outside [sunrise, sunset), with Tmin < Tmax
C7_Witness ==
    /\ day.done
    /\ \E i \in 1..Len(day.out) :
          /\ Len(day.locals[i].sunTemps) = 0
          /\ Len(day.locals[i].nightTemps) >= 2
          /\ Lt(day.out[i].Tmin, day.out[i].Tmax)

\* C8: a calendar day without any hourly temperature sample yields no
\* DailyMetrics row (the day is skipped or the aggregation fails)
C8_NoRowForEmptyDay ==
    day.done =>
        \A i \in 1..Len(day.out) :
            \E j \in 1..Len(day.w.hourly) : day.w.hourly[j].day = day.out[i].day

\* sunrise or sunset is missing, or sunrise is not before sunset
NeedsFallback(dy) ==
    ~dy.sunrise.has \/ ~dy.sunset.has \/ dy.sunrise.min >= dy.sunset.min

\* C22: for a day whose sunrise or sunset is missing, or whose sunrise is not
\* strictly before its sunset, the buckets are split at 06:00 and 18:00
C22_FallbackBoundary ==
    day.done =>
        \A i \in 1..Len(day.locals) :
            NeedsFallback(day.w.daily[i]) =>
                /\ day.locals[i].sunriseHour = Z(6)
                /\ day.locals[i].sunsetHour = Z(18)

\* C23: every sample of the day is in exactly one bucket, and in the day
\* bucket exactly when sunriseHour <= hour < sunsetHour, the hour taken with
\* its minutes; the sizes of the two buckets add up to the number of samples
C23_BucketPartition ==
    day.done =>
        \A i \in 1..Len(day.locals) :
            LET l == day.locals[i]
                InDay(h) == /\ Le(l.sunriseHour, Q(h.min, 60))
                            /\ Lt(Q(h.min, 60), l.sunsetHour)
            IN  /\ Len(l.sunTemps) + Len(l.nightTemps) = Len(l.dayHourlyData)
                /\ l.sunTemps = MapTemp(SelectSeq(l.dayHourlyData, InDay))
                /\ l.nightTemps =
                      MapTemp(SelectSeq(l.dayHourlyData, LAMBDA h : ~InDay(h)))

\* sunrise at 05:30 and sunset at 12:00: the sample of 05:45 is in the day
\* bucket and the sample of 12:00 in the night bucket
C23_Witness ==
    /\ day.done
    /\ \E i \in 1..Len(day.locals) :
          /\ day.locals[i].sunriseHour = Q(11, 2)
          /\ day.locals[i].sunsetHour = Z(12)
          /\ \E j, k \in 1..Len(day.locals[i].dayHourlyData) :
                /\ day.locals[i].dayHourlyData[j].min = 5 * 60 + 45
                /\ day.locals[i].dayHourlyData[k].min = 12 * 60
          /\ Len(day.locals[i].sunTemps) = 1
          /\ Len(day.locals[i].nightTemps) = 1

(***************************************************************************)
(* JavaScript Date, to the day.  A Date is [y, m, d], m in 1..12.  The     *)
(* edge function runs with the local time zone UTC, so local and UTC       *)
(* calendar fields agree.                                                  *)
(***************************************************************************)
IsLeap(y) == (y % 4 = 0 /\ y % 100 # 0) \/ y % 400 = 0

DaysInMonth(y, m) ==
    IF m = 2 THEN (IF IsLeap(y) THEN 29 ELSE 28)
    ELSE IF m \in {4, 6, 9, 11} THEN 30 ELSE 31

RECURSIVE MakeDay(_, _, _)
\* the Date with calendar fields (y, m, d) after JavaScript's overflow rule:
\* a day of month outside the month rolls into the neighbouring months
MakeDay(y, m, d) ==
    IF d < 1 THEN
        LET py == IF m = 1 THEN y - 1 ELSE y
            pm == IF m = 1 THEN 12 ELSE m - 1
        IN  MakeDay(py, pm, d + DaysInMonth(py, pm))
    ELSE IF d > DaysInMonth(y, m) THEN
        MakeDay(IF m = 12 THEN y + 1 ELSE y, IF m = 12 THEN 1 ELSE m + 1,
                d - DaysInMonth(y, m))
    ELSE [y |-> y, m |-> m, d |-> d]

\* date.setDate(n)
SetDate(dt, n) == MakeDay(dt.y, dt.m, n)

RECURSIVE DaysBeforeYear(_)
DaysBeforeYear(y) ==
    IF y = 2015 THEN 0
    ELSE IF y > 2015
    THEN DaysBeforeYear(y - 1) + (IF IsLeap(y - 1) THEN 366 ELSE 365)
    ELSE DaysBeforeYear(y + 1) - (IF IsLeap(y) THEN 366 ELSE 365)

RECURSIVE DaysBeforeMonth(_, _)
DaysBeforeMonth(y, m) ==
    IF m = 1 THEN 0 ELSE DaysBeforeMonth(y, m - 1) + DaysInMonth(y, m - 1)

\* date.getTime(), in days (from 2015-01-01)
DayNumber(dt) == DaysBeforeYear(dt.y) + DaysBeforeMonth(dt.y, dt.m) + dt.d - 1

(***************************************************************************)
(* Day-window selection of the cached variant (index.ts 77-97)             *)
(***************************************************************************)
\* faulty variant: the window end one day late
EndDate_OffByOne(targetDate, window) == SetDate(targetDate, targetDate.d + window)

\* endDate.setDate(endDate.getDate() + window - 1)
EndDate(targetDate, window) == SetDate(targetDate, targetDate.d + window - 1)

\* startDate, endDate, isArchive and the endpoint chosen; now is the clock's day
ForwardWindow(targetDate, window, now) ==
    LET endDate == EndDate(targetDate, window)
        isArchive == DayNumber(endDate) < now
    IN  [ start |-> targetDate,
          end |-> endDate,
          isArchive |-> isArchive,
          endpoint |-> IF isArchive THEN "archive" ELSE "forecast" ]

(***************************************************************************)
(* Day-window selection of the historical variant (index.ts 403-435)       *)
(***************************************************************************)
\* new Date('2025-10-20')
MaxAllowedDate == [y |-> 2025, m |-> 10, d |-> 20]

\* new Date('2016-01-01')
MinAllowedDate == [y |-> 2016, m |-> 1, d |-> 1]

\* date.setFullYear(y): the month and day are kept, and a day the month of
\* the new year does not have rolls over
SetFullYear(dt, y) == MakeDay(y, dt.m, dt.d)

RECURSIVE BackIntoRange(_)
\* while (historicalDate > maxAllowedDate) setFullYear(getFullYear() - 1)
BackIntoRange(dt) ==
    IF DayNumber(dt) > DayNumber(MaxAllowedDate)
    THEN BackIntoRange(SetFullYear(dt, dt.y - 1))
    ELSE dt

\* faulty variant: the range around the anchor without the two boundary moves
HistoricalWindow_Unclamped(targetDate, window) ==
    LET historicalDate == BackIntoRange(SetFullYear(targetDate, targetDate.y - 1))
        half == window \div 2
    IN  [ anchor |-> historicalDate,
          start |-> SetDate(historicalDate, historicalDate.d - half),
          end |-> SetDate(historicalDate, historicalDate.d + half),
          endpoint |-> "historical-forecast" ]

\* historicalDate: a year back, further back while after the last archive
\* day, and the month and day of the target in 2016 when before the first
HistoricalDate(targetDate) ==
    LET back == BackIntoRange(SetFullYear(targetDate, targetDate.y - 1))
    IN  IF DayNumber(back) < DayNumber(MinAllowedDate)
        THEN SetDate([MinAllowedDate EXCEPT !.m = targetDate.m], targetDate.d)
        ELSE back

\* startDate and endDate around historicalDate, each moved to the boundary
\* of the archive when outside it
HistoricalWindow(targetDate, window) ==
    LET historicalDate == HistoricalDate(targetDate)
        half == window \div 2
        startDate == SetDate(historicalDate, historicalDate.d - half)
        endDate == SetDate(historicalDate, historicalDate.d + half)
    IN  [ anchor |-> historicalDate,
          start |-> IF DayNumber(startDate) < DayNumber(MinAllowedDate)
                    THEN MinAllowedDate ELSE startDate,
          end |-> IF DayNumber(endDate) > DayNumber(MaxAllowedDate)
                  THEN MaxAllowedDate ELSE endDate,
          endpoint |-> "historical-forecast" ]

(***************************************************************************)
(* SpecWin: window selection over target dates, windows and clock values   *)
(***************************************************************************)
MaxWindow == 8

D(y, m, d) == [y |-> y, m |-> m, d |-> d]

TargetDates ==
    { D(2012, 12, 31), D(2016, 1, 2), D(2016, 6, 1), D(2024, 2, 27), D(2024, 2, 29),
      D(2026, 10, 18),
      D(2024, 12, 30), D(2025, 2, 27), D(2025, 10, 25), D(2025, 11, 5),
      D(2026, 1, 31), D(2026, 10, 22), D(2027, 12, 1), D(2028, 2, 29) }

WindowVals == (0..MaxWindow) \cup {15, 30, 45}

\* the clock relative to the target: target is ahead of today by this many days
AheadVals == {-40, -3, 0, 5, 20}

InitWin ==
    /\ IdleEdge
    /\ IdleDay
    /\ IdleBff
    /\ IdleUi
    /\ \E t \in TargetDates, w \in WindowVals, a \in AheadVals :
          win = [done |-> FALSE, target |-> t, window |-> w,
                 now |-> DayNumber(t) - a, fwd |-> <<>>, hist |-> <<>>]

SelectWindow ==
    /\ ~win.done
    /\ win' = [win EXCEPT !.done = TRUE,
                          !.fwd = ForwardWindow(win.target, win.window, win.now),
                          !.hist = HistoricalWindow(win.target, win.window)]
    /\ UNCHANGED <<edgeVars, day, bff, page, rec>>

NextWin == SelectWindow

SpecWin == InitWin /\ [][NextWin]_vars

\* the target is within the provider's forecast horizon (today .. today + 16 days)
InHorizon == win.now <= DayNumber(win.target) /\ DayNumber(win.target) <= win.now + 16

\* C10: for a target inside the forecast horizon and a window >= 1 the range
\* asked from the provider starts at the target and spans exactly `window`
\* consecutive days, from the forecast endpoint
C10_ForwardWindow ==
    (win.done /\ InHorizon /\ win.window >= 1) =>
        /\ win.fwd.start = win.target
        /\ DayNumber(win.fwd.end) - DayNumber(win.fwd.start) + 1 = win.window
        /\ win.fwd.end.d \in 1..DaysInMonth(win.fwd.end.y, win.fwd.end.m)
        /\ win.fwd.endpoint = "forecast"

\* a window inside the horizon that runs over the end of a month
C10_Witness ==
    /\ win.done /\ InHorizon /\ win.window >= 2
    /\ win.fwd.end.m # win.target.m

\* the target is after the forecast horizon and at most a year ahead
BeyondHorizon ==
    /\ DayNumber(win.target) > win.now + 16
    /\ DayNumber(win.target) <= win.now + 366

\* C11: for a target beyond the forecast horizon the cached variant does not
\* ask the forecast endpoint for the target's own dates; the range it asks
\* for lies in an earlier year
C11_BeyondHorizonUsesHistory ==
    (win.done /\ BeyondHorizon /\ win.window >= 1) =>
        /\ win.fwd.endpoint # "forecast"
        /\ win.fwd.start.y < win.target.y

\* C12: the historical anchor lies inside the archive range and has the
\* month and the day of the target
C12_AnchorKeepsMonthDay ==
    win.done =>
        /\ DayNumber(MinAllowedDate) <= DayNumber(win.hist.anchor)
        /\ DayNumber(win.hist.anchor) <= DayNumber(MaxAllowedDate)
        /\ win.hist.anchor.m = win.target.m
        /\ win.hist.anchor.d = win.target.d

\* C26: for every target date and window the range asked from the
\* historical archive satisfies 2016-01-01 <= startDate <= endDate <= 2025-10-20
C26_HistoricalRangeInArchive ==
    win.done =>
        /\ DayNumber(MinAllowedDate) <= DayNumber(win.hist.start)
        /\ DayNumber(win.hist.start) <= DayNumber(win.hist.end)
        /\ DayNumber(win.hist.end) <= DayNumber(MaxAllowedDate)

\* the anchor is so close to the last archive day that the end of the range
\* is moved back to it
C26_Witness ==
    /\ win.done /\ win.window >= 2
    /\ DayNumber(win.hist.anchor) + (win.window \div 2) > DayNumber(MaxAllowedDate)
    /\ win.hist.end = MaxAllowedDate
    /\ DayNumber(win.hist.start) < DayNumber(win.hist.anchor)

(***************************************************************************)
(* The mock outlook: src/lib/api/outlook.ts                                *)
(***************************************************************************)
Sub(a, b) == Add(a, Mul(Z(-1), b))

\* Math.abs(Math.sin(x)) in thousandths, for the products lat * lon * doy of
\* the parameter sets below (values of the real function)
AbsSinMilli(x) ==
    CASE Abs(x) = 0 -> 0
      [] Abs(x) = 6000 -> 427
      [] Abs(x) = 13500 -> 545
      [] Abs(x) = 23600 -> 348
      [] Abs(x) = 53100 -> 718
      [] Abs(x) = 74000 -> 213
      [] Abs(x) = 108000 -> 994
      [] Abs(x) = 166500 -> 954
      [] Abs(x) = 243000 -> 813
      [] Abs(x) = 424800 -> 124
      [] Abs(x) = 955800 -> 961
      [] Abs(x) = 1332000 -> 665
      [] Abs(x) = 2997000 -> 752

Risk(t, l, pr, r) == [type |-> t, level |-> l, prob |-> Z(pr), rule |-> r]

\* generateScenario(lat, lon, doy, units); lat and lon are integers here
GenerateScenario(lat, lon, doy, units) ==
    LET hash == AbsSinMilli(lat * lon * doy)
        metric == units = "metric"
    IN  IF hash < 400 THEN
            IF metric THEN
              [ temps |-> [mean |-> Z(42), tMax |-> Z(48), tMin |-> Z(35), std |-> Q(35, 10)],
                precip |-> [mean |-> Q(1, 10), p50 |-> Z(0), p90 |-> Q(5, 10), rainChance |-> Z(5)],
                wind |-> [mean |-> Q(25, 10), p90 |-> Q(42, 10)],
                risks |-> << Risk("very_hot", "high", 85, "Heat Index >= 40C"),
                             Risk("very_uncomfortable", "high", 78, "Extreme heat conditions") >> ]
            ELSE
              [ temps |-> [mean |-> Z(108), tMax |-> Z(118), tMin |-> Z(95), std |-> Q(63, 10)],
                precip |-> [mean |-> Q(4, 1000), p50 |-> Z(0), p90 |-> Q(2, 100), rainChance |-> Z(5)],
                wind |-> [mean |-> Q(56, 10), p90 |-> Q(94, 10)],
                risks |-> << Risk("very_hot", "high", 85, "Heat Index >= 104F"),
                             Risk("very_uncomfortable", "high", 78, "Extreme heat conditions") >> ]
        ELSE IF hash < 600 THEN
            IF metric THEN
              [ temps |-> [mean |-> Z(-15), tMax |-> Z(-8), tMin |-> Z(-22), std |-> Q(42, 10)],
                precip |-> [mean |-> Q(15, 10), p50 |-> Q(8, 10), p90 |-> Q(45, 10), rainChance |-> Z(45)],
                wind |-> [mean |-> Q(85, 10), p90 |-> Q(142, 10)],
                risks |-> << Risk("very_cold", "high", 92, "Wind Chill <= -20C"),
                             Risk("very_windy", "high", 68, "Wind speed >= 12 m/s") >> ]
            ELSE
              [ temps |-> [mean |-> Z(5), tMax |-> Z(18), tMin |-> Z(-8), std |-> Q(76, 10)],
                precip |-> [mean |-> Q(6, 100), p50 |-> Q(3, 100), p90 |-> Q(18, 100), rainChance |-> Z(45)],
                wind |-> [mean |-> Z(19), p90 |-> Z(32)],
                risks |-> << Risk("very_cold", "high", 92, "Wind Chill <= -4F"),
                             Risk("very_windy", "high", 68, "Wind speed >= 27 mph") >> ]
        ELSE IF hash < 800 THEN
            IF metric THEN
              [ temps |-> [mean |-> Z(28), tMax |-> Z(32), tMin |-> Z(24), std |-> Q(21, 10)],
                precip |-> [mean |-> Z(45), p50 |-> Z(38), p90 |-> Z(95), rainChance |-> Z(88)],
                wind |-> [mean |-> Z(12), p90 |-> Z(22)],
                risks |-> << Risk("very_wet", "high", 88, "Heavy rainfall >= 30mm/day"),
                             Risk("very_windy", "high", 75, "Storm conditions >= 15 m/s") >> ]
            ELSE
              [ temps |-> [mean |-> Z(82), tMax |-> Z(90), tMin |-> Z(75), std |-> Q(38, 10)],
                precip |-> [mean |-> Q(177, 100), p50 |-> Q(15, 10), p90 |-> Q(374, 100), rainChance |-> Z(88)],
                wind |-> [mean |-> Z(27), p90 |-> Z(49)],
                risks |-> << Risk("very_wet", "high", 88, "Heavy rainfall >= 1.2in/day"),
                             Risk("very_windy", "high", 75, "Storm conditions >= 34 mph") >> ]
        ELSE
            IF metric THEN
              [ temps |-> [mean |-> Z(22), tMax |-> Z(27), tMin |-> Z(17), std |-> Q(25, 10)],
                precip |-> [mean |-> Q(25, 10), p50 |-> Q(12, 10), p90 |-> Z(8), rainChance |-> Z(35)],
                wind |-> [mean |-> Q(42, 10), p90 |-> Q(75, 10)],
                risks |-> << Risk("very_wet", "low", 15, "Light rain possible") >> ]
            ELSE
              [ temps |-> [mean |-> Z(72), tMax |-> Z(81), tMin |-> Z(63), std |-> Q(45, 10)],
                precip |-> [mean |-> Q(1, 10), p50 |-> Q(5, 100), p90 |-> Q(31, 100), rainChance |-> Z(35)],
                wind |-> [mean |-> Q(94, 10), p90 |-> Q(168, 10)],
                risks |-> << Risk("very_wet", "low", 15, "Light rain possible") >> ]

\* x || dflt for a number x
OrElse(x, dflt) == IF IsNaN(x) \/ x = Z(0) THEN dflt ELSE x

\* doy: days from 31 December of the year before (new Date(year, 0, 0))
DayOfYear(dt) == DayNumber(dt) - DayNumber([y |-> dt.y - 1, m |-> 12, d |-> 31])

Row(v, mean, std, p10, p25, p50, p75, p90) ==
    [var |-> v, mean |-> mean, std |-> std,
     p10 |-> p10, p25 |-> p25, p50 |-> p50, p75 |-> p75, p90 |-> p90]

\* a temperature row: mean -/+ 1.5 std and 0.7 std
TempRow(v, mean, std) ==
    Row(v, mean, std,
        Sub(mean, Mul(std, Q(15, 10))), Sub(mean, Mul(std, Q(7, 10))), mean,
        Add(mean, Mul(std, Q(7, 10))), Add(mean, Mul(std, Q(15, 10))))

Prob(metric, threshold, pr) ==
    [metric |-> metric, threshold |-> threshold, probability_percent |-> pr]

\* scenario.risks.find(r => r.type === "very_windy")?.prob || 10
WindyProb(risks) ==
    LET hit == SelectSeq(risks, LAMBDA r : r.type = "very_windy")
    IN  IF Len(hit) > 0 THEN OrElse(hit[1].prob, Z(10)) ELSE Z(10)

\* getOutlook(params), lat and lon integers, date parseable
GetOutlook(lat, lon, date, window, units) ==
    LET doy == DayOfYear(date)
        sc == GenerateScenario(lat, lon, doy, units)
        metric == units = "metric"
    IN  [ metadata |-> [doy |-> doy, window_days |-> window, units |-> units,
                        samples_n |-> Mul(window, Z(44))],
          summary |-> <<
              TempRow("t_mean", sc.temps.mean, sc.temps.std),
              TempRow("t_max", sc.temps.tMax, sc.temps.std),
              TempRow("t_min", sc.temps.tMin, sc.temps.std),
              Row("rh_mean", Z(48), Z(9), Z(35), Z(42), Z(48), Z(54), Z(62)),
              IF metric
              THEN Row("dew_point", Q(135, 10), Q(17, 10), Q(112, 10), Q(123, 10),
                       Q(134, 10), Q(145, 10), Q(158, 10))
              ELSE Row("dew_point", Q(563, 10), Q(31, 10), Q(522, 10), Q(541, 10),
                       Q(561, 10), Q(581, 10), Q(604, 10)),
              Row("wind10m", sc.wind.mean, Mul(sc.wind.mean, Q(3, 10)),
                  Mul(sc.wind.mean, Q(6, 10)), Mul(sc.wind.mean, Q(8, 10)), sc.wind.mean,
                  Mul(sc.wind.mean, Q(12, 10)), sc.wind.p90),
              Row("precip_mm", sc.precip.mean, Mul(sc.precip.mean, Q(25, 10)),
                  Z(0), Mul(sc.precip.mean, Q(1, 10)), sc.precip.p50,
                  Mul(sc.precip.mean, Q(7, 10)), sc.precip.p90) >>,
          probabilities |-> <<
              Prob("t_max", Sub(sc.temps.tMax, Z(5)), OrElse(sc.risks[1].prob, Z(20))),
              Prob("precip_mm", IF metric THEN Z(1) ELSE Q(4, 100), sc.precip.rainChance),
              Prob("precip_mm", Mul(sc.precip.p90, Q(8, 10)),
                   MathMin(Mul(sc.precip.rainChance, Q(3, 10)), Z(10))),
              Prob("wind10m", Mul(sc.wind.p90, Q(7, 10)), WindyProb(sc.risks)) >>,
          risk_labels |->
              [i \in 1..Len(sc.risks) |->
                  [ risk_type |-> sc.risks[i].type,
                    level |-> sc.risks[i].level,
                    probability_percent |-> sc.risks[i].prob,
                    rule_applied |-> sc.risks[i].rule ]] ]

(***************************************************************************)
(* The BFF handler: src/pages/api/outlook.ts.  A date string is            *)
(* [s, y, m, d]: s = "iso" a valid YYYY-MM-DD date, "isobad" a string of   *)
(* that shape that is no date (2025-13-01), "text" any other non-empty     *)
(* string, "empty" the empty string.  An optional number is [has, v].      *)
(***************************************************************************)
ValidateLat(lat) == ~IsNaN(lat) /\ Ge(lat, Z(-90)) /\ Le(lat, Z(90))

ValidateLon(lon) == ~IsNaN(lon) /\ Ge(lon, Z(-180)) /\ Le(lon, Z(180))

\* the regular expression, then new Date(date) is a date
ValidateDate(date) == date.s \in {"iso", "isobad"} /\ date.s = "iso"

ValidateWindow(window) == ~IsNaN(window) /\ Ge(window, Z(7)) /\ Le(window, Z(30))

ValidateUnits(units) == units \in {"metric", "imperial"}

\* the truth value of an optional number: undefined, 0 and NaN are falsy
Truthy(o) == o.has /\ ~IsNaN(o.v) /\ o.v # Z(0)

InvalidParam(msg) ==
    [kind |-> "error", error |-> [status |-> 400, code |-> "INVALID_PARAM", message |-> msg]]

\* handleOutlookRequest(params): the error thrown, or the result returned
HandleOutlookRequest(params) ==
    IF ~ValidateLat(params.lat) THEN
        InvalidParam("Latitude must be between -90 and 90.")
    ELSE IF ~ValidateLon(params.lon) THEN
        InvalidParam("Longitude must be between -180 and 180.")
    ELSE IF ~ValidateDate(params.date) THEN
        InvalidParam("Parameter 'date' must be YYYY-MM-DD.")
    ELSE IF Truthy(params.window) /\ ~ValidateWindow(params.window.v) THEN
        InvalidParam("Window must be between 7 and 30 days.")
    ELSE IF params.units # "" /\ ~ValidateUnits(params.units) THEN
        InvalidParam("Units must be 'metric' or 'imperial'.")
    ELSE
        [ kind |-> "ok",
          result |-> GetOutlook(params.lat.n, params.lon.n,
                                [y |-> params.date.y, m |-> params.date.m, d |-> params.date.d],
                                IF Truthy(params.window) THEN params.window.v ELSE Z(15),
                                IF params.units # "" THEN params.units ELSE "metric") ]

(***************************************************************************)
(* SpecBff: handleOutlookRequest over a set of parameters                  *)
(***************************************************************************)
Iso(y, m, d) == [s |-> "iso", y |-> y, m |-> m, d |-> d]

NoDate(kind) == [s |-> kind, y |-> 0, m |-> 0, d |-> 0]

Undefined == [has |-> FALSE, v |-> NaN]

Some(x) == [has |-> TRUE, v |-> x]

BffLats == {NaN, Z(-91), Z(-90), Z(0), Z(40), Z(90), Z(95)}

BffLons == {NaN, Z(-181), Z(-180), Z(0), Z(10), Z(180), Z(200)}

BffDates ==
    { Iso(2025, 1, 15), Iso(2025, 7, 4), Iso(2026, 2, 28),
      NoDate("isobad"), NoDate("text"), NoDate("empty") }

BffWindows ==
    { Undefined, Some(NaN), Some(Z(0)), Some(Z(1)), Some(Z(7)), Some(Z(15)),
      Some(Z(30)), Some(Z(31)), Some(Z(45)) }

BffUnits == {"", "metric", "imperial", "kelvin"}

InitBff ==
    /\ IdleEdge
    /\ IdleDay
    /\ IdleWin
    /\ IdleUi
    /\ \E la \in BffLats, lo \in BffLons, dt \in BffDates, w \in BffWindows, u \in BffUnits :
          bff = [ done |-> FALSE,
                  params |-> [lat |-> la, lon |-> lo, date |-> dt, window |-> w, units |-> u],
                  out |-> [kind |-> "none"] ]

BffRequest ==
    /\ ~bff.done
    /\ bff' = [bff EXCEPT !.done = TRUE, !.out = HandleOutlookRequest(bff.params)]
    /\ UNCHANGED <<edgeVars, day, win, page, rec>>

NextBff == BffRequest

SpecBff == InitBff /\ [][NextBff]_vars

Monotone(row) ==
    /\ Le(row.p10, row.p25)
    /\ Le(row.p25, row.p50)
    /\ Le(row.p50, row.p75)
    /\ Le(row.p75, row.p90)

\* C2: every summary row of an outlook has p10 <= p25 <= p50 <= p75 <= p90
C2_PercentilesMonotone ==
    (bff.done /\ bff.out.kind = "ok") =>
        \A i \in 1..Len(bff.out.result.summary) : Monotone(bff.out.result.summary[i])

\* C3: a request with windowDays = 0 or 45 fails with an invalid-parameter
\* error and is not answered with an outlook for another window
C3_WindowOutOfRangeRejected ==
    (bff.done /\ bff.params.window \in {Some(Z(0)), Some(Z(45))}) =>
        /\ bff.out.kind = "error"
        /\ bff.out.error.code = "INVALID_PARAM"

(***************************************************************************)
(* The weather-forecast edge function, cached variant (index.ts 31-352):   *)
(* window averages and the response                                        *)
(***************************************************************************)
Null == [k |-> "null", n |-> 0, d |-> 1]

\* JSON.stringify of a number: NaN and the infinities become null
Json(x) == IF IsNum(x) THEN x ELSE Null

\* xs.reduce((sum, x) => sum + x, 0) / xs.length
Avg(xs) == DivInt(SumOf(xs), Len(xs))

AvgMetrics(dm) ==
    [ Tmin |-> Avg([i \in 1..Len(dm) |-> dm[i].Tmin]),
      Tmax |-> Avg([i \in 1..Len(dm) |-> dm[i].Tmax]),
      Tmean |-> Avg([i \in 1..Len(dm) |-> DivInt(Add(dm[i].Tmin, dm[i].Tmax), 2)]),
      sunTmean |-> Avg([i \in 1..Len(dm) |-> dm[i].sunTmean]),
      nightTmean |-> Avg([i \in 1..Len(dm) |-> dm[i].nightTmean]),
      precipitation |-> Avg([i \in 1..Len(dm) |-> dm[i].precipitation_sum]),
      windSpeed |-> Avg([i \in 1..Len(dm) |-> dm[i].wind_speed_10m_mean]) ]

\* dailyMetrics.filter(d => d.precipitation_sum > 0.1).length
DaysWithRain(dm) == Len(SelectSeq(dm, LAMBDA r : Gt(r.precipitation_sum, Q(1, 10))))

\* Math.min(100, Math.round((daysWithRain / dailyMetrics.length) * 100))
PrecipProb(dm) ==
    MathMin(Z(100), MathRound(Mul(DivInt(Z(DaysWithRain(dm)), Len(dm)), Z(100))))

OutlookText(avg) ==
    IF Lt(avg.Tmean, Z(5)) THEN "Very cold conditions expected"
    ELSE IF Lt(avg.Tmean, Z(15)) THEN "Cool conditions expected"
    ELSE IF Lt(avg.Tmean, Z(25)) THEN "Mild conditions expected"
    ELSE IF Lt(avg.Tmean, Z(30)) THEN "Warm conditions expected"
    ELSE "Hot conditions expected"

PrecipitationRisk(precipProb) ==
    IF Gt(precipProb, Z(70)) THEN "Very High"
    ELSE IF Gt(precipProb, Z(50)) THEN "High"
    ELSE IF Gt(precipProb, Z(30)) THEN "Moderate"
    ELSE "Low"

WindCondition(avg) ==
    IF Gt(avg.windSpeed, Z(40)) THEN "Very windy - strong wind warning"
    ELSE IF Gt(avg.windSpeed, Z(30)) THEN "Windy - caution outdoors"
    ELSE IF Gt(avg.windSpeed, Z(20)) THEN "Breezy conditions"
    ELSE "Light winds"

\* the response object, as serialised (rain, snow and atmosphere are left out)
BuildResponse(r, w, dataSource, now) ==
    LET dm == DailyMetrics(w)
        avg == AvgMetrics(dm)
        precipProb == PrecipProb(dm)
        metric == r.units = "metric"
    IN  [ metadata |-> [ latitude |-> r.lat, longitude |-> r.lon, date |-> r.date,
                         window |-> r.window, units |-> r.units,
                         dataSource |-> dataSource, generatedAt |-> now ],
          forecast |->
            [ temperature |->
                [ mean |-> Json(Round1(avg.Tmean)), min |-> Json(Round1(avg.Tmin)),
                  max |-> Json(Round1(avg.Tmax)), daytime |-> Json(Round1(avg.sunTmean)),
                  nighttime |-> Json(Round1(avg.nightTmean)),
                  unit |-> IF metric THEN "C" ELSE "F", confidence |-> Q(85, 100) ],
              precipitation |->
                [ probability |-> Json(precipProb),
                  amount |-> Json(Round1(avg.precipitation)),
                  unit |-> IF metric THEN "mm" ELSE "inch", confidence |-> Q(75, 100) ],
              wind |->
                [ speed |-> Json(Round1(avg.windSpeed)),
                  unit |-> IF metric THEN "km/h" ELSE "mph",
                  condition |-> WindCondition(avg) ] ],
          summary |->
            [ outlook |-> OutlookText(avg),
              precipitationRisk |-> PrecipitationRisk(precipProb),
              windCondition |-> WindCondition(avg) ],
          dailyBreakdown |->
            [ i \in 1..Len(dm) |->
                [ date |-> dm[i].day,
                  tempMin |-> Json(Round1(dm[i].Tmin)), tempMax |-> Json(Round1(dm[i].Tmax)),
                  tempDayMean |-> Json(Round1(dm[i].sunTmean)),
                  tempNightMean |-> Json(Round1(dm[i].nightTmean)),
                  precipitation |-> Json(Round1(dm[i].precipitation_sum)),
                  windSpeed |-> Json(Round1(dm[i].wind_speed_10m_mean)) ] ],
          averages |->
            [ tempMin |-> Json(Round1(avg.Tmin)), tempMax |-> Json(Round1(avg.Tmax)),
              tempMean |-> Json(Round1(avg.Tmean)),
              precipitation |-> Json(Round1(avg.precipitation)),
              windSpeed |-> Json(Round1(avg.windSpeed)) ] ]

(***************************************************************************)
(* The Results page on the edge function (the second Results component of  *)
(* part_002): the transformation of a handler response                     *)
(***************************************************************************)
Label(t, l, pr) == [risk_type |-> t, level |-> l, probability_percent |-> pr]

\* risk_type of the first label: mean > 32 ? 'very_hot' : mean < 3 ?
\* 'very_cold' : 'very_uncomfortable'
TemperatureType(mean) ==
    IF Gt(mean, Z(32)) THEN "very_hot"
    ELSE IF Lt(mean, Z(3)) THEN "very_cold" ELSE "very_uncomfortable"

\* level of the first label
TemperatureLevel(mean) ==
    IF Gt(mean, Z(35)) \/ Lt(mean, Z(0)) THEN "high"
    ELSE IF Gt(mean, Z(30)) \/ Lt(mean, Z(5)) THEN "medium" ELSE "low"

\* faulty variant: one of the two conditions is enough for high
UncomfortableLevel_Either(mean, amount) ==
    IF Gt(mean, Z(28)) \/ Gt(amount, Z(5)) THEN "high"
    ELSE IF Gt(mean, Z(25)) \/ Gt(amount, Z(2)) THEN "medium" ELSE "low"

\* level of the very_uncomfortable label (the last one)
UncomfortableLevel(mean, amount) ==
    IF Gt(mean, Z(28)) /\ Gt(amount, Z(5)) THEN "high"
    ELSE IF Gt(mean, Z(25)) \/ Gt(amount, Z(2)) THEN "medium" ELSE "low"

\* the object literal of transformedData; f is forecastData.forecast
TransformedData(f) ==
    LET mean == f.temperature.mean
        tmin == f.temperature.min
        tmax == f.temperature.max
        amount == f.precipitation.amount
        probability == f.precipitation.probability
        speed == OrZero(f.wind.speed)
    IN  [ summary |-> <<
              Row("t_mean", mean, Q(25, 10), tmin, DivInt(Add(tmin, mean), 2), mean,
                  DivInt(Add(mean, tmax), 2), tmax),
              Row("t_min", tmin, Q(15, 10), Sub(tmin, Z(3)), Sub(tmin, Z(1)), tmin,
                  Add(tmin, Z(1)), Add(tmin, Z(2))),
              Row("t_max", tmax, Q(18, 10), Sub(tmax, Z(2)), Sub(tmax, Z(1)), tmax,
                  Add(tmax, Z(1)), Add(tmax, Z(3))),
              Row("precip_mm", amount, Mul(amount, Q(4, 10)), Mul(amount, Q(3, 10)),
                  Mul(amount, Q(5, 10)), amount, Mul(amount, Q(12, 10)),
                  Mul(amount, Q(15, 10))),
              Row("wind10m", speed, Mul(speed, Q(3, 10)), Mul(speed, Q(6, 10)),
                  Mul(speed, Q(8, 10)), speed, Mul(speed, Q(12, 10)),
                  Mul(speed, Q(15, 10))) >>,
          probabilities |-> <<
              Prob("precip_mm", Z(1), Mul(probability, Z(100))),
              Prob("t_mean", Z(30), IF Gt(mean, Z(30)) THEN Z(70) ELSE Z(20)) >>,
          risk_labels |-> <<
              Label(TemperatureType(mean), TemperatureLevel(mean),
                    MathMin(Z(95), MathMax(Z(60), Mul(f.temperature.confidence, Z(100))))),
              Label("very_wet",
                    IF Gt(amount, Z(25)) THEN "high"
                    ELSE IF Gt(amount, Z(10)) THEN "medium" ELSE "low",
                    IF Gt(amount, Z(1))
                    THEN MathMin(Z(90), MathMax(Z(55), Mul(probability, Z(100))))
                    ELSE Z(0)),
              Label("very_windy",
                    IF Gt(speed, Z(40)) THEN "high"
                    ELSE IF Gt(speed, Z(25)) THEN "medium" ELSE "low",
                    IF Gt(speed, Z(10))
                    THEN MathMin(Z(85), MathMax(Z(40), Add(Z(50), speed)))
                    ELSE Z(20)),
              Label("very_uncomfortable", UncomfortableLevel(mean, amount),
                    MathMin(Z(75), MathMax(Z(30),
                        Add(IF Gt(mean, Z(25)) THEN Z(60) ELSE Z(35), Mul(amount, Z(2)))))) >> ]

\* what fetchOutlook leaves in the page state for a handler response: the
\* error of a non-2xx status, the TypeError of .toFixed on a null amount or
\* mean, or the transformed data
PageOutcome(rsp) ==
    IF rsp.status # 200 THEN
        [kind |-> "error", message |-> "Edge Function returned a non-2xx status code"]
    ELSE IF ~IsNum(rsp.body.forecast.precipitation.amount)
             \/ ~IsNum(rsp.body.forecast.temperature.mean) THEN
        [kind |-> "error", message |-> "Cannot read properties of null (reading 'toFixed')"]
    ELSE [kind |-> "data", data |-> TransformedData(rsp.body.forecast)]

(***************************************************************************)
(* SpecPage: the page's transformation over handler responses with mean    *)
(* temperatures and precipitation amounts around the thresholds            *)
(***************************************************************************)
PageMeans ==
    { Z(-2), Z(0), Z(2), Z(3), Z(4), Z(5), Z(20), Z(25), Q(251, 10), Z(28),
      Q(281, 10), Z(30), Q(301, 10), Z(32), Q(321, 10), Z(35), Q(351, 10), Z(40) }

PageAmounts == {Z(0), Z(2), Q(21, 10), Z(5), Q(51, 10), Z(30)}

\* a 200 response of the handler with these figures
PageResponse(mean, amount) ==
    [ status |-> 200,
      body |->
        [ forecast |->
            [ temperature |->
                [ mean |-> mean, min |-> Sub(mean, Z(4)), max |-> Add(mean, Z(4)),
                  daytime |-> Add(mean, Z(2)), nighttime |-> Sub(mean, Z(2)),
                  unit |-> "C", confidence |-> Q(85, 100) ],
              precipitation |->
                [ probability |-> Z(50), amount |-> amount, unit |-> "mm",
                  confidence |-> Q(75, 100) ],
              wind |-> [speed |-> Z(12), unit |-> "km/h", condition |-> "Light winds"] ] ] ]

PageResponses == {PageResponse(m, a) : m \in PageMeans, a \in PageAmounts}

InitPage ==
    /\ IdleDay
    /\ IdleWin
    /\ IdleBff
    /\ IdleUi
    /\ today = 0
    /\ upstream = <<>>
    /\ cache = {}
    /\ pc = [p \in {1, 2} |-> "page"]
    /\ req = <<>>
    /\ fetchArgs = <<>>
    /\ resp \in [{1, 2} -> PageResponses]
    /\ calls = <<>>
    /\ data = [p \in {1, 2} |-> [kind |-> "none"]]

(***************************************************************************)
(* Spec: requests to the edge function, the cache, the provider, the clock *)
(* and the Results page.  Sets of the model:                               *)
(***************************************************************************)
Procs == {1, 2}

MaxTicks == 2

\* the day the clock starts at
StartDay == DayNumber(D(2025, 11, 5))

Body(lat, lon, date, window, units) ==
    [lat |-> lat, lon |-> lon, date |-> date, window |-> window, units |-> units]

\* the JSON bodies sent: a plain request, the same in imperial units, one on
\* the equator, one with a latitude out of range, one with a date that is no
\* date, one without a date, one with a window of 45 days
Requests ==
    { Body(Z(40), Z(10), Iso(2025, 11, 5), Some(Z(2)), ""),
      Body(Z(40), Z(10), Iso(2025, 11, 5), Some(Z(2)), "imperial"),
      Body(Z(0), Z(10), Iso(2025, 11, 5), Some(Z(2)), ""),
      Body(Z(95), Z(10), Iso(2025, 11, 5), Undefined, ""),
      Body(Z(40), Z(10), NoDate("text"), Undefined, "") }

Hour(d, h, t) == [day |-> d, min |-> h * 60, temp |-> t]

Daily(d, sr, ss, precip, wind) ==
    [day |-> d, sunrise |-> sr, sunset |-> ss, precip |-> precip, wind |-> wind]

Endpoints == {"forecast", "archive"}

PayloadIds == {"zero", "dry", "wet", "mixed", "nosamples", "fail", "garbled"}

\* what the provider answers: an HTTP status, and a body that has the
\* hourly and daily fields (wellFormed) or lacks them
Payload(id) ==
    CASE id = "zero" ->
           [ok |-> TRUE, wellFormed |-> TRUE, hourly |-> <<>>, daily |-> <<>>]
      [] id = "dry" ->
           [ok |-> TRUE, wellFormed |-> TRUE,
            hourly |-> <<Hour(1, 6, Z(8)), Hour(1, 12, Z(15)), Hour(2, 12, Q(141, 10))>>,
            daily |-> <<Daily(1, At(7 * 60), At(17 * 60), Z(0), Z(12)),
                        Daily(2, At(7 * 60), At(17 * 60), Q(1, 10), Z(9))>>]
      [] id = "wet" ->
           [ok |-> TRUE, wellFormed |-> TRUE,
            hourly |-> <<Hour(1, 6, Z(30)), Hour(1, 12, Z(38)), Hour(2, 12, Z(36))>>,
            daily |-> <<Daily(1, At(6 * 60), At(18 * 60), Z(12), Z(45)),
                        Daily(2, At(6 * 60), At(18 * 60), Z(30), Z(38))>>]
      [] id = "mixed" ->
           [ok |-> TRUE, wellFormed |-> TRUE,
            hourly |-> <<Hour(1, 0, Z(-2)), Hour(1, 12, Z(4)), Hour(2, 0, Z(1)), Hour(2, 12, Z(7))>>,
            daily |-> <<Daily(1, Missing, Missing, Q(4, 10), Z(22)),
                        Daily(2, Missing, Missing, NaN, Z(27))>>]
      [] id = "nosamples" ->
           [ok |-> TRUE, wellFormed |-> TRUE,
            hourly |-> <<Hour(2, 12, Z(20))>>,
            daily |-> <<Daily(1, At(7 * 60), At(17 * 60), Z(3), Z(5))>>]
      [] id = "fail" ->
           [ok |-> FALSE, wellFormed |-> FALSE, hourly |-> <<>>, daily |-> <<>>]
      [] id = "garbled" ->
           [ok |-> TRUE, wellFormed |-> FALSE, hourly |-> <<>>, daily |-> <<>>]

\* what the provider holds for the two endpoints: the same payload on both,
\* a dry forecast beside a wet archive, or a forecast beside a failing archive
Snapshots ==
    {[e \in Endpoints |-> id] : id \in PayloadIds}
        \cup {[forecast |-> "dry", archive |-> "wet"],
              [forecast |-> "wet", archive |-> "fail"]}

\* the provider's unit parameters (temperature_unit, precipitation_unit,
\* wind_speed_unit): the payloads above are in Celsius, mm and km/h, and an
\* imperial request is answered in Fahrenheit, inch and mph
InUnits(w, units) ==
    IF units = "metric" THEN w
    ELSE [ w EXCEPT
             !.hourly = [i \in 1..Len(w.hourly) |->
                           [w.hourly[i] EXCEPT !.temp = Add(Mul(@, Q(9, 5)), Z(32))]],
             !.daily = [i \in 1..Len(w.daily) |->
                           [w.daily[i] EXCEPT !.precip = Mul(@, Q(5, 127)),
                                              !.wind = Mul(@, Q(3107, 5000))]] ]

NoBody == [none |-> TRUE]

NoResp == [status |-> 0, body |-> NoBody]

NoFetch ==
    [ start |-> D(0, 0, 0), end |-> D(0, 0, 0), isArchive |-> FALSE,
      endpoint |-> "none", payload |-> "none", lookup |-> "none",
      insert |-> "none" ]

NoData == [kind |-> "none"]

Init ==
    /\ IdleDay
    /\ IdleWin
    /\ IdleBff
    /\ IdleUi
    /\ today = StartDay
    /\ upstream \in Snapshots
    /\ cache = {}
    /\ pc = [p \in Procs |-> "idle"]
    /\ req = [p \in Procs |-> Body(NaN, NaN, NoDate("empty"), Undefined, "")]
    /\ fetchArgs = [p \in Procs |-> NoFetch]
    /\ resp = [p \in Procs |-> NoResp]
    /\ calls = [p \in Procs |-> 0]
    /\ data = [p \in Procs |-> NoData]

(***************************************************************************)
(* The handler, one action per stretch between two awaits                  *)
(***************************************************************************)
\* const { lat, lon, date, window = 7, units = "metric" } = await req.json()
Destructure(b) ==
    [ lat |-> b.lat, lon |-> b.lon, date |-> b.date,
      window |-> IF b.window.has THEN b.window.v ELSE Z(7),
      units |-> IF b.units = "" THEN "metric" ELSE b.units ]

\* !lat || !lon || !date
MissingParams(r) ==
    \/ IsNaN(r.lat) \/ r.lat = Z(0)
    \/ IsNaN(r.lon) \/ r.lon = Z(0)
    \/ r.date.s = "empty"

\* new Date(date) is a date; otherwise toISOString() throws a RangeError
DateParses(date) == date.s = "iso"

TargetDate(r) == [y |-> r.date.y, m |-> r.date.m, d |-> r.date.d]

\* the cache key: (lat, lon, target_date, day_window, units)
KeyOf(r) ==
    [ lat |-> r.lat, lon |-> r.lon, target_date |-> TargetDate(r),
      day_window |-> r.window, units |-> r.units ]

ErrorResp(status, msg) == [status |-> status, body |-> [error |-> msg]]

\* faulty variant: a plain insert, without the conflict target
Upsert_Insert(rows, key, response) == rows \cup {[key |-> key, response |-> response]}

\* faulty variant: the upsert drops the rows of the other keys
Upsert_DropOthers(rows, key, response) == {[key |-> key, response |-> response]}

\* .upsert(row, { onConflict: 'lat,lon,target_date,day_window,units' })
Upsert(rows, key, response) ==
    {row \in rows : row.key # key} \cup {[key |-> key, response |-> response]}

\* body parsed and validated; the cache lookup is issued for a valid body
Receive(p) ==
    /\ pc[p] = "idle"
    /\ \E b \in Requests :
          LET r == Destructure(b)
          IN  /\ req' = [req EXCEPT ![p] = r]
              /\ IF MissingParams(r) THEN
                    /\ resp' = [resp EXCEPT ![p] =
                          ErrorResp(400, "Missing required parameters: lat, lon, date")]
                    /\ pc' = [pc EXCEPT ![p] = "page"]
                 ELSE IF ~DateParses(r.date) THEN
                    /\ resp' = [resp EXCEPT ![p] = ErrorResp(500, "Invalid time value")]
                    /\ pc' = [pc EXCEPT ![p] = "page"]
                 ELSE
                    /\ resp' = resp
                    /\ pc' = [pc EXCEPT ![p] = "lookup"]
    /\ UNCHANGED <<today, upstream, cache, fetchArgs, calls, data, day, win, bff,
                   page, rec>>

\* if (cachedData && !cacheError): the stored response is returned
CacheHit(cachedData, cacheError) == cachedData # {} /\ ~cacheError

\* the lookup answers: an error of the store, or the row of the key if any;
\* on a hit the stored response is returned, otherwise the range and the
\* endpoint are chosen from the clock and the provider is called
CacheLookup(p) ==
    /\ pc[p] = "lookup"
    /\ \E cacheError \in BOOLEAN :
          LET cachedData == IF cacheError THEN {}
                            ELSE {row \in cache : row.key = KeyOf(req[p])}
          IN  IF CacheHit(cachedData, cacheError) THEN
                  /\ resp' = [resp EXCEPT ![p] =
                        [status |-> 200,
                         body |-> (CHOOSE row \in cachedData : TRUE).response]]
                  /\ pc' = [pc EXCEPT ![p] = "page"]
                  /\ fetchArgs' = [fetchArgs EXCEPT ![p].lookup = "hit"]
              ELSE
                  /\ fetchArgs' = [fetchArgs EXCEPT ![p] =
                        ForwardWindow(TargetDate(req[p]), req[p].window.n, today)
                            @@ [payload |-> "none",
                                lookup |-> IF cacheError THEN "error" ELSE "miss",
                                insert |-> "none"]]
                  /\ pc' = [pc EXCEPT ![p] = "fetch"]
                  /\ resp' = resp
    /\ UNCHANGED <<today, upstream, cache, req, calls, data, day, win, bff,
                   page, rec>>

\* the provider's answer can be processed: apiResponse.ok and the hourly and
\* daily fields are there; otherwise an Error is thrown
Processable(w) == w.ok /\ w.wellFormed

\* faulty variant: a failed call is made again
StepAfterFetch_Retry(w) == IF Processable(w) THEN "upsert" ELSE "fetch"

\* faulty variant: the outcome of a failed call is stored as well
StepAfterFetch_Store(w) == "upsert"

\* where the handler continues after the call: the upsert, or the catch
\* block, which returns
StepAfterFetch(w) == IF Processable(w) THEN "upsert" ELSE "page"

\* the provider answers; the payload is processed into the response
Fetch(p) ==
    /\ pc[p] = "fetch"
    /\ calls' = [calls EXCEPT ![p] = @ + 1]
    /\ LET id == upstream[fetchArgs[p].endpoint]
           w == InUnits(Payload(id), req[p].units)
       IN  /\ fetchArgs' = [fetchArgs EXCEPT ![p].payload = id]
           /\ pc' = [pc EXCEPT ![p] = StepAfterFetch(w)]
           /\ resp' = [resp EXCEPT ![p] =
                 IF ~w.ok THEN ErrorResp(500, "Open-Meteo API error")
                 ELSE IF ~w.wellFormed
                 THEN ErrorResp(500, "Cannot read properties of undefined")
                 ELSE [ status |-> 200,
                        body |-> BuildResponse(req[p], w,
                                   IF fetchArgs[p].isArchive
                                   THEN "Open-Meteo Archive API"
                                   ELSE "Open-Meteo Forecast API", today) ]]
    /\ UNCHANGED <<today, upstream, cache, req, data, day, win, bff,
                   page, rec>>

\* faulty variant: a failed upsert is thrown
Returned_ThrowInsertError(response, insertError) ==
    IF insertError THEN ErrorResp(500, "Error caching forecast")
    ELSE [status |-> 200, body |-> response]

\* if (insertError) console.error(...); return new Response(response)
Returned(response, insertError) == [status |-> 200, body |-> response]

\* the upsert succeeds or fails (the failure is only logged); the response
\* is returned either way
CacheUpsert(p) ==
    /\ pc[p] = "upsert"
    /\ \E insertError \in BOOLEAN :
          /\ cache' = IF insertError THEN cache
                      ELSE Upsert(cache, KeyOf(req[p]), resp[p].body)
          /\ resp' = [resp EXCEPT ![p] = Returned(resp[p].body, insertError)]
          /\ fetchArgs' = [fetchArgs EXCEPT ![p].insert =
                              IF insertError THEN "failed" ELSE "stored"]
    /\ pc' = [pc EXCEPT ![p] = "page"]
    /\ UNCHANGED <<today, upstream, req, calls, data, day, win, bff,
                   page, rec>>

\* the Results page receives the response: setData or setError
PageBuild(p) ==
    /\ pc[p] = "page"
    /\ data' = [data EXCEPT ![p] = PageOutcome(resp[p])]
    /\ pc' = [pc EXCEPT ![p] = "done"]
    /\ UNCHANGED <<today, upstream, cache, req, fetchArgs, resp, calls, day, win, bff,
                   page, rec>>

\* a day passes
Tick ==
    /\ today < StartDay + MaxTicks
    /\ today' = today + 1
    /\ UNCHANGED <<upstream, cache, pc, req, fetchArgs, resp, calls, data, day, win, bff,
                   page, rec>>

\* the provider revises its data: the dry days are now wet
ProviderRevises ==
    /\ upstream = [e \in Endpoints |-> "dry"]
    /\ upstream' = [e \in Endpoints |-> "wet"]
    /\ UNCHANGED <<today, cache, pc, req, fetchArgs, resp, calls, data, day, win, bff,
                   page, rec>>

Next ==
    \/ \E p \in Procs : Receive(p)
    \/ \E p \in Procs : CacheLookup(p)
    \/ \E p \in Procs : Fetch(p)
    \/ \E p \in Procs : CacheUpsert(p)
    \/ \E p \in Procs : PageBuild(p)
    \/ Tick
    \/ ProviderRevises

Spec == Init /\ [][Next]_vars

(***************************************************************************)
(* Properties of the handler and of the page built from its response       *)
(***************************************************************************)
InRange0To100(x) == IsNum(x) /\ Ge(x, Z(0)) /\ Le(x, Z(100))

NonEmptyWindow(body) == Len(body.dailyBreakdown) > 0

\* C1: for a non-empty window, the precipitation probability of a handler
\* response and every probability_percent of the probabilities and of the
\* risk labels that the Results page builds from it lie in [0, 100]
C1_ProbabilityPercentInRange ==
    \A p \in Procs :
        (resp[p].status = 200 /\ NonEmptyWindow(resp[p].body)) =>
            /\ InRange0To100(resp[p].body.forecast.precipitation.probability)
            /\ data[p].kind = "data" =>
                  /\ \A i \in 1..Len(data[p].data.probabilities) :
                        InRange0To100(data[p].data.probabilities[i].probability_percent)
                  /\ \A i \in 1..Len(data[p].data.risk_labels) :
                        InRange0To100(data[p].data.risk_labels[i].probability_percent)

InvalidRequest(r) ==
    ~ValidateLat(r.lat) \/ ~ValidateLon(r.lon) \/ ~DateParses(r.date)

\* C4: a request of the handler whose latitude or longitude is out of range
\* or whose date does not parse is answered 400 without a cache lookup, a
\* provider call or a computation
C4_InvalidRejectedBeforeUpstream ==
    \A p \in Procs :
        (pc[p] # "idle" /\ InvalidRequest(req[p])) =>
            /\ pc[p] \in {"page", "done"}
            /\ calls[p] = 0
            /\ resp[p].status = 400

\* C5: two finished computations of the same (lat, lon, date, window, units)
\* against the same provider snapshot carry the same forecast and summary and
\* the page shows the same rows and risk labels, from the cache or
\* recomputed, whatever the day of each call
C5_SameInputsSameOutlook ==
    \A p, q \in Procs :
        ( /\ pc[p] = "done" /\ pc[q] = "done"
          /\ req[p] = req[q]
          /\ resp[p].status = 200 /\ resp[q].status = 200 ) =>
            /\ resp[p].body.summary = resp[q].body.summary
            /\ resp[p].body.forecast = resp[q].body.forecast
            /\ data[p] = data[q]

HasNullFigures(body) ==
    \/ body.forecast.precipitation.probability = Null
    \/ body.averages.tempMin = Null \/ body.averages.tempMax = Null
    \/ body.averages.tempMean = Null \/ body.averages.precipitation = Null
    \/ body.averages.windSpeed = Null

\* C9: when the provider returns zero days the handler answers with an
\* error; no 200 response carries averages or a precipitation probability
\* that are not numbers, and no such response is stored in the cache
C9_ZeroDaysFailExplicitly ==
    /\ \A p \in Procs :
          (fetchArgs[p].payload = "zero" /\ pc[p] \in {"upsert", "page", "done"}) =>
              resp[p].status # 200
    /\ \A p \in Procs :
          (resp[p].status = 200 /\ ~NonEmptyWindow(resp[p].body)) =>
              ~HasNullFigures(resp[p].body)
    /\ \A row \in cache :
          ~NonEmptyWindow(row.response) => ~HasNullFigures(row.response)

\* the provider was called for p and its answer could not be processed
ProviderFailed(p) ==
    calls[p] > 0 /\ fetchArgs[p].payload # "none"
        /\ ~Processable(Payload(fetchArgs[p].payload))

\* p has returned its response
Returned200(p) == pc[p] \in {"page", "done"} /\ resp[p].status = 200

SameKey(p, q) == KeyOf(req[p]) = KeyOf(req[q])

\* p computed a response: it called the provider and passed the upsert
Computed(p) == pc[p] \in {"page", "done"} /\ calls[p] = 1 /\ resp[p].status = 200

\* C14: whatever the interleaving of the requests, the cache holds at most
\* one row for a key, the row holds the response computed by one of the
\* requests for that key, and every request for which the provider answered
\* returns a response with all its parts
C14_OneRowPerKey ==
    /\ \A r1, r2 \in cache : r1.key = r2.key => r1 = r2
    /\ \A row \in cache :
          \E p \in Procs :
              /\ KeyOf(req[p]) = row.key
              /\ calls[p] = 1
              /\ fetchArgs[p].insert = "stored"
              /\ resp[p].body = row.response
    /\ \A p \in Procs :
          (pc[p] = "done" /\ fetchArgs[p].lookup # "none" /\ ~ProviderFailed(p)) =>
              /\ resp[p].status = 200
              /\ {"metadata", "forecast", "summary", "dailyBreakdown", "averages"}
                    \subseteq DOMAIN resp[p].body

\* two requests for one key both missed the cache, computed different
\* responses and both stored them; one row is left
C14_Witness ==
    \E p, q \in Procs :
        /\ p # q /\ SameKey(p, q)
        /\ pc[p] = "done" /\ pc[q] = "done"
        /\ fetchArgs[p].insert = "stored" /\ fetchArgs[q].insert = "stored"
        /\ resp[p].body # resp[q].body
        /\ Cardinality({row \in cache : row.key = KeyOf(req[p])}) = 1

\* C15: when the provider call fails or its payload cannot be processed, the
\* request ends with an error response that has no forecast fields, and the
\* request writes no row into the cache
C15_ProviderFailureAtomic ==
    \A p \in Procs :
        ProviderFailed(p) =>
            /\ pc[p] \in {"page", "done"}
            /\ resp[p].status = 500
            /\ DOMAIN resp[p].body = {"error"}
            /\ fetchArgs[p].insert = "none"
            /\ \A row \in cache : row.response # resp[p].body
            /\ pc[p] = "done" => data[p].kind = "error"

\* a failed provider call while the cache holds the row of another request
C15_Witness ==
    \E p, q \in Procs :
        /\ p # q
        /\ ProviderFailed(p) /\ pc[p] = "done"
        /\ fetchArgs[q].insert = "stored" /\ cache # {}

\* C16: one execution of the handler calls the provider at most once:
\* once when the lookup missed or failed, not at all on a hit or when the
\* request was rejected, and not again after a failed call
C16_AtMostOneProviderCall ==
    \A p \in Procs :
        /\ calls[p] <= 1
        /\ (pc[p] \in {"upsert", "page", "done"}
              /\ fetchArgs[p].lookup \in {"miss", "error"}) => calls[p] = 1
        /\ fetchArgs[p].lookup \in {"hit", "none"} => calls[p] = 0
        /\ (pc[p] \in {"page", "done"} /\ resp[p].status = 400) => calls[p] = 0
        /\ ProviderFailed(p) => (calls[p] = 1 /\ pc[p] \in {"page", "done"})

\* a finished cache hit without a call, served from the row of a finished
\* request that missed the cache and called once
C16_Witness ==
    \E p, q \in Procs :
        /\ pc[p] = "done" /\ fetchArgs[p].lookup = "hit" /\ calls[p] = 0
        /\ pc[q] = "done" /\ fetchArgs[q].lookup = "miss" /\ calls[q] = 1

\* an error object: a kind or code beside the message
StructuredError(e) == "message" \in DOMAIN e /\ {"kind", "code"} \cap DOMAIN e # {}

\* C17: every error response of the handler carries an error kind or code
\* and a message, at the top of the body; a body whose only member is the
\* message string `error` is not one
C17_ErrorsStructured ==
    \A p \in Procs :
        resp[p].status \notin {0, 200} => StructuredError(resp[p].body)

\* the place of a risk type in the canonical order
Rank(t) ==
    CASE t = "very_hot" -> 1
      [] t = "very_cold" -> 2
      [] t = "very_windy" -> 3
      [] t = "very_wet" -> 4
      [] t = "very_uncomfortable" -> 5

InCanonicalOrder(labels) ==
    \A i, j \in 1..Len(labels) :
        i < j => Rank(labels[i].risk_type) <= Rank(labels[j].risk_type)

\* C18: the risk labels the Results page builds are in the order very_hot,
\* very_cold, very_windy, very_wet, very_uncomfortable
C18_RiskLabelsCanonicalOrder ==
    \A p \in Procs :
        data[p].kind = "data" => InCanonicalOrder(data[p].data.risk_labels)

DistinctTypes(labels) ==
    \A i, j \in 1..Len(labels) :
        i # j => labels[i].risk_type # labels[j].risk_type

\* C19: the risk labels the Results page builds have pairwise different
\* risk types
C19_OneLabelPerRiskType ==
    \A p \in Procs :
        data[p].kind = "data" => DistinctTypes(data[p].data.risk_labels)

\* C20: the probability_percent of the very_wet label is the share of the
\* window's days with rain, in percent, as the handler computed it
C20_VeryWetIsExceedanceShare ==
    \A p \in Procs :
        (data[p].kind = "data" /\ NonEmptyWindow(resp[p].body)) =>
            \A i \in 1..Len(data[p].data.risk_labels) :
                data[p].data.risk_labels[i].risk_type = "very_wet" =>
                    data[p].data.risk_labels[i].probability_percent
                        = resp[p].body.forecast.precipitation.probability

\* the risk types and levels of the labels, without the figures
TypesAndLevels(labels) ==
    [i \in 1..Len(labels) |-> <<labels[i].risk_type, labels[i].level>>]

\* p and q asked for the same place, date and window, p in metric and q in
\* imperial units, and the provider answered both from the same payload
SameConditions(p, q) ==
    /\ pc[p] = "done" /\ pc[q] = "done"
    /\ req[p].units = "metric" /\ req[q].units = "imperial"
    /\ [req[p] EXCEPT !.units = "imperial"] = req[q]
    /\ fetchArgs[p].payload # "none"
    /\ fetchArgs[p].payload = fetchArgs[q].payload
    /\ data[p].kind = "data" /\ data[q].kind = "data"

\* C21: the same physical conditions asked in metric and in imperial units
\* give the same outlook, precipitation risk and wind condition classes and
\* the same risk types and levels
C21_UnitsSameClasses ==
    \A p, q \in Procs :
        SameConditions(p, q) =>
            /\ resp[p].body.summary = resp[q].body.summary
            /\ TypesAndLevels(data[p].data.risk_labels)
                  = TypesAndLevels(data[q].data.risk_labels)

NextPage == \E p \in Procs : PageBuild(p)

SpecPage == InitPage /\ [][NextPage]_vars

MeanOf(p) == resp[p].body.forecast.temperature.mean

AmountOf(p) == resp[p].body.forecast.precipitation.amount

\* the very_uncomfortable label the page builds last
LastLabel(p) == data[p].data.risk_labels[Len(data[p].data.risk_labels)]

LevelRank(l) == CASE l = "low" -> 1 [] l = "medium" -> 2 [] l = "high" -> 3

FirstLabel(p) == data[p].data.risk_labels[1]

\* the level of the temperature label does not fall as the mean moves away
\* from the threshold
LevelMonotone ==
    \A p, q \in Procs :
        (data[p].kind = "data" /\ data[q].kind = "data"
            /\ FirstLabel(p).risk_type = FirstLabel(q).risk_type) =>
            /\ (FirstLabel(p).risk_type = "very_hot" /\ Le(MeanOf(p), MeanOf(q))) =>
                  LevelRank(FirstLabel(p).level) <= LevelRank(FirstLabel(q).level)
            /\ (FirstLabel(p).risk_type = "very_cold" /\ Ge(MeanOf(p), MeanOf(q))) =>
                  LevelRank(FirstLabel(p).level) <= LevelRank(FirstLabel(q).level)

\* C25: the level of the temperature label never decreases as the mean rises
\* above the very_hot threshold or falls below the very_cold threshold, and
\* each of low, medium and high is the level of a very_hot label for some mean
C25_TemperatureLevelEscalates ==
    /\ LevelMonotone
    /\ (\A p \in Procs : data[p].kind = "data") =>
          \A l \in {"low", "medium", "high"} :
              \E m \in PageMeans :
                  TemperatureType(m) = "very_hot" /\ TemperatureLevel(m) = l

RowsOf(p) == {row \in cache : row.key = KeyOf(req[p])}

\* p takes the step of the cache lookup
LookupStep(p) == pc[p] = "lookup" /\ pc'[p] # "lookup"

\* no step removes the row of a key from the cache
RowsNeverRemoved ==
    [][\A row \in cache : \E row2 \in cache' : row2.key = row.key]_vars

OnAxisRequest(r) ==
    /\ r.lat = Z(0) \/ r.lon = Z(0)
    /\ IsNum(r.lat) /\ IsNum(r.lon)
    /\ DateParses(r.date)

\* C28: a request with lat = 0 or lon = 0 and a valid date is never answered
\* 400 'Missing required parameters' by the handler
C28_ZeroCoordinateNotMissing ==
    \A p \in Procs :
        (pc[p] # "idle" /\ OnAxisRequest(req[p])) =>
            ~(resp[p].status = 400
              /\ resp[p].body = [error |-> "Missing required parameters: lat, lon, date"])

(***************************************************************************)
(* The Results page while the URL parameters change: every run of the      *)
(* effect starts a request, and the answers arrive in any order            *)
(***************************************************************************)
MaxRuns == 3

\* the URL parameters: two places, the equator, and a URL without a date
PageQueries ==
    { [lat |-> 40, lon |-> 10, date |-> "2025-11-05"],
      [lat |-> 51, lon |-> 7, date |-> "2025-11-05"],
      [lat |-> 0, lon |-> 10, date |-> "2025-11-05"],
      [lat |-> 40, lon |-> 10, date |-> ""] }

\* if (lat && lon && date)
HasParams(q) == q.lat # 0 /\ q.lon # 0 /\ q.date # ""

\* one run of the effect, up to the await of fetchOutlook
RunEffect(pg, q) ==
    IF HasParams(q)
    THEN [ pg EXCEPT !.params = q, !.run = @ + 1,
                     !.loading = TRUE,
                     !.error = [run |-> pg.run + 1, msg |-> ""],
                     !.inflight = @ \cup {[run |-> pg.run + 1, q |-> q]} ]
    ELSE [ pg EXCEPT !.params = q, !.run = @ + 1,
                     !.error = [run |-> pg.run + 1, msg |-> "Missing required parameters"],
                     !.loading = FALSE ]

InitNav ==
    /\ IdleEdge
    /\ IdleDay
    /\ IdleWin
    /\ IdleBff
    /\ IdleRec
    /\ \E q \in PageQueries : page = [Mounted EXCEPT !.params = q]

\* the effect runs after the mount
PageMount ==
    /\ page.run = 0
    /\ page' = RunEffect(page, page.params)
    /\ UNCHANGED <<edgeVars, day, win, bff, rec>>

\* the URL changes: [lat, lon, date, window, units] differ and the effect
\* runs again; nothing is done about the request of the run before
PageNavigate ==
    /\ page.run > 0 /\ page.run < MaxRuns
    /\ \E q \in PageQueries :
          /\ q # page.params
          /\ page' = RunEffect(page, q)
    /\ UNCHANGED <<edgeVars, day, win, bff, rec>>

\* the request of some run is answered: setData(..), then finally
\* setLoading(false)
PageResolved ==
    /\ \E r \in page.inflight :
          page' = [ page EXCEPT !.inflight = @ \ {r},
                                !.data = r,
                                !.loading = FALSE ]
    /\ UNCHANGED <<edgeVars, day, win, bff, rec>>

\* the request of some run fails: setError(..), then finally setLoading(false)
PageRejected ==
    /\ \E r \in page.inflight :
          page' = [ page EXCEPT !.inflight = @ \ {r},
                                !.error = [run |-> r.run, msg |-> "failed"],
                                !.loading = FALSE ]
    /\ UNCHANGED <<edgeVars, day, win, bff, rec>>

NextNav ==
    \/ PageMount
    \/ PageNavigate
    \/ PageResolved
    \/ PageRejected

SpecNav == InitNav /\ [][NextNav]_vars

\* the request of the latest run of the effect is still in flight
LatestPending == \E r \in page.inflight : r.run = page.run

\* C29: on the Results page the answer of an earlier request never
\* overwrites the state of a newer one: loading is false only once the
\* latest request has completed, and once it has, the data or the error
\* shown is the one of the latest request
C29_LatestRequestWins ==
    /\ ~page.loading => ~LatestPending
    /\ (page.run > 0 /\ HasParams(page.params) /\ ~LatestPending) =>
          \/ page.data.run = page.run /\ page.error.msg = ""
          \/ page.error.run = page.run /\ page.error.msg # ""

(***************************************************************************)
(* useVoiceRecorder, driven by the microphone button of the assistant      *)
(***************************************************************************)
MaxStops == 3

Pending == [state |-> "pending", value |-> ""]

Settle(promises, i, state, value) ==
    IF i \in 1..Len(promises) /\ promises[i].state = "pending"
    THEN [promises EXCEPT ![i] = [state |-> state, value |-> value]]
    ELSE promises

InitVoice ==
    /\ IdleEdge
    /\ IdleDay
    /\ IdleWin
    /\ IdleBff
    /\ IdlePage
    /\ IdleRec

\* handleVoiceInput with isRecording false: startRecording(); the button is
\* disabled while isTranscribing
StartRecording ==
    /\ ~rec.isRecording /\ ~rec.isTranscribing
    /\ Len(rec.promises) < MaxStops
    /\ \E granted \in BOOLEAN :
          rec' = IF granted
                 THEN [ rec EXCEPT !.recorder = "recording", !.chunks = 0,
                                   !.handler = 0, !.stopEvent = FALSE,
                                   !.flushed = FALSE, !.isRecording = TRUE,
                                   !.toast = "" ]
                 ELSE [ rec EXCEPT !.toast = "Could not access microphone" ]
    /\ UNCHANGED <<edgeVars, day, win, bff, page>>

\* handleVoiceInput with isRecording true: stopRecording(). Without a
\* recorder the promise is rejected; otherwise onstop is set and stop() is
\* called, which on a recorder that is already inactive throws (the promise
\* is rejected) or does nothing, depending on the browser
StopRecording ==
    /\ rec.isRecording /\ ~rec.isTranscribing
    /\ Len(rec.promises) < MaxStops
    /\ LET i == Len(rec.promises) + 1
       IN  CASE rec.recorder = "none" ->
                  rec' = [ rec EXCEPT !.promises =
                              Append(@, [state |-> "rejected",
                                         value |-> "No recording in progress"]) ]
             [] rec.recorder = "recording" ->
                  rec' = [ rec EXCEPT !.promises = Append(@, Pending),
                                      !.handler = i,
                                      !.recorder = "inactive",
                                      !.stopEvent = TRUE,
                                      !.flushed = FALSE ]
             [] rec.recorder = "inactive" ->
                  \E throws \in BOOLEAN :
                      rec' = [ rec EXCEPT !.promises =
                                  Append(@, IF throws
                                            THEN [state |-> "rejected",
                                                  value |-> "InvalidStateError"]
                                            ELSE Pending),
                                          !.handler = i ]
    /\ UNCHANGED <<edgeVars, day, win, bff, page>>

\* ondataavailable: the recorded data arrives before the stop event, and is
\* kept if e.data.size > 0
DataAvailable ==
    /\ rec.stopEvent /\ ~rec.flushed
    /\ \E size \in {0, 1} :
          rec' = [ rec EXCEPT !.flushed = TRUE,
                              !.chunks = IF size > 0 THEN @ + 1 ELSE @ ]
    /\ UNCHANGED <<edgeVars, day, win, bff, page>>

\* onstop: setIsRecording(false), setIsTranscribing(true), the blob is
\* handed to the FileReader, the tracks are stopped
OnStop ==
    /\ rec.stopEvent /\ rec.flushed
    /\ rec' = [ rec EXCEPT !.stopEvent = FALSE,
                           !.isRecording = FALSE,
                           !.isTranscribing = TRUE,
                           !.reading = rec.handler ]
    /\ UNCHANGED <<edgeVars, day, win, bff, page>>

\* reader.onloadend: without base64 data (an empty blob, or a failed read)
\* the callback throws, and nothing catches it; otherwise voice-to-text is
\* invoked
OnLoadEnd ==
    /\ rec.reading # 0
    /\ \E readOk \in BOOLEAN :
          LET base64Audio == IF readOk /\ rec.chunks > 0 THEN "data" ELSE ""
          IN  rec' = IF base64Audio = ""
                     THEN [rec EXCEPT !.reading = 0]
                     ELSE [rec EXCEPT !.reading = 0, !.invoking = rec.reading]
    /\ UNCHANGED <<edgeVars, day, win, bff, page>>

\* the rest of onloadend, after the await: setIsTranscribing(false); an
\* error is thrown, and nothing catches it; otherwise the promise is
\* resolved with data?.text || ''
VoiceToTextReturns ==
    /\ rec.invoking # 0
    /\ \E out \in {"error", "empty", "text"} :
          rec' = CASE out = "error" ->
                        [rec EXCEPT !.invoking = 0, !.isTranscribing = FALSE]
                   [] out = "empty" ->
                        [rec EXCEPT !.invoking = 0, !.isTranscribing = FALSE,
                                    !.toast = "No speech detected",
                                    !.promises = Settle(@, rec.invoking, "resolved", "")]
                   [] out = "text" ->
                        [rec EXCEPT !.invoking = 0, !.isTranscribing = FALSE,
                                    !.promises = Settle(@, rec.invoking, "resolved", "text")]
    /\ UNCHANGED <<edgeVars, day, win, bff, page>>

NextVoice ==
    \/ StartRecording
    \/ StopRecording
    \/ DataAvailable
    \/ OnStop
    \/ OnLoadEnd
    \/ VoiceToTextReturns

\* the browser delivers every event and every answer; the user may stop
\* clicking
SpecVoice ==
    /\ InitVoice
    /\ [][NextVoice]_vars
    /\ WF_vars(DataAvailable)
    /\ WF_vars(OnStop)
    /\ WF_vars(OnLoadEnd)
    /\ WF_vars(VoiceToTextReturns)

\* the i-th call of stopRecording found a recorder
StopCalled(i) ==
    /\ Len(rec.promises) >= i
    /\ rec.promises[i].value \notin {"No recording in progress"}

Settled(i) ==
    /\ Len(rec.promises) >= i
    /\ rec.promises[i].state # "pending"

\* C30: after stopRecording() is called while a recorder exists, the promise
\* it returned is eventually resolved or rejected and isTranscribing is
\* eventually false again, whatever the conversion and voice-to-text do
C30_StopEventuallySettles ==
    /\ \A i \in 1..MaxStops : StopCalled(i) ~> Settled(i)
    /\ rec.isTranscribing ~> ~rec.isTranscribing

====
